---- MODULE Spec2Model ----
(***************************************************************************)
(* Model of scripts/convert_xlsx_to_json.py: the spreadsheet reader        *)
(* (col_letter_to_index, load_rows), the card grouper (cells_to_cards) and *)
(* the orchestration loop of main.                                         *)
(*                                                                         *)
(* A Python str is modelled as the sequence of its code points, so that    *)
(* ord(), str.upper(), str.isalpha(), str.strip() and int() are computed   *)
(* rather than assumed.  Python's None is the model value None.            *)
(***************************************************************************)
EXTENDS Integers, Sequences, FiniteSets, TLC

VARIABLES
    \* col_letter_to_index
    col, col_result,
    \* the value resolution of one cell (load_rows, lines 59-67)
    res_shared, res_cell, res_value,
    \* cells_to_cards
    cells, header_regex, pos, cards, current, sentinels, cards_pc,
    \* load_rows
    pkg, zf, shared, rows, row_data, max_col, seen, rows_pc, rows_exc,
    \* main
    grid, pattern, col_idx, num_cols, all_cards, main_pc

colVars   == <<col, col_result>>
resVars   == <<res_shared, res_cell, res_value>>
cardVars  == <<cells, header_regex, pos, cards, current, sentinels, cards_pc>>
rowVars   == <<pkg, zf, shared, rows, row_data, max_col, seen, rows_pc, rows_exc>>
mainVars  == <<grid, pattern, col_idx, num_cols, all_cards, main_pc>>
vars      == <<colVars, resVars, cardVars, rowVars, mainVars>>

\* Optional values: Python's None is the empty tuple, a present value x is <<x>>.
None    == <<>>
Some(x) == <<x>>

(***************************************************************************)
(* Bounds of the model.                                                    *)
(***************************************************************************)
MaxColLen   == 3    \* longest upper-case column label drawn
MaxMixedLen == 1    \* longest mixed-case column label drawn

(***************************************************************************)
(* Strings as code point sequences.                                        *)
(***************************************************************************)
UpperLetters == 65..90      \* 'A'..'Z'
LowerLetters == 97..122     \* 'a'..'z'
Digits       == 48..57      \* '0'..'9'

\* str.upper() on one code point (ASCII range).
UpperChar(c) == IF c \in LowerLetters THEN c - 32 ELSE c

\* str.upper()
Upper(s) == [i \in 1..Len(s) |-> UpperChar(s[i])]

\* str.isalpha() on one code point (ASCII range).
IsAlpha(c) == c \in UpperLetters \/ c \in LowerLetters

\* The code points below 256 that str.strip() removes (str.isspace()).
Whitespace == (9..13) \cup (28..32) \cup {133, 160}

\* The code points below 256 that int() skips around a number.
IntWhitespace == (9..13) \cup {32, 133, 160}

\* The strings of length lo..hi over the alphabet A.
StringsOver(A, lo, hi) == UNION {[1..n -> A] : n \in lo..hi}

(***************************************************************************)
(* col_letter_to_index (lines 24-29).                                      *)
(***************************************************************************)
RECURSIVE ColLoop(_, _, _)
\* The for loop of lines 27-28 from position i on, with accumulator result.
ColLoop(s, i, result) ==
    IF i > Len(s) THEN result
    ELSE ColLoop(s, i + 1, result * 26 + (s[i] - 65 + 1))

RECURSIVE ColLoopBase26(_, _, _)
\* Plain base 26 with A as the digit 0: the loop without its "+ 1".
ColLoopBase26(s, i, result) ==
    IF i > Len(s) THEN result
    ELSE ColLoopBase26(s, i + 1, result * 26 + (s[i] - 65))

col_letter_to_index_base26(c) == ColLoopBase26(Upper(c), 1, 0)

col_letter_to_index(c) == ColLoop(Upper(c), 1, 0) - 1

ColInputs ==
    StringsOver(UpperLetters, 0, MaxColLen)
        \cup StringsOver(UpperLetters \cup LowerLetters, 0, MaxMixedLen)

\* One call of col_letter_to_index on the drawn label.
ColApply == /\ col_result = None
            /\ col_result' = Some(col_letter_to_index(col))
            /\ UNCHANGED <<col, resVars, cardVars, rowVars, mainVars>>

(***************************************************************************)
(* cells_to_cards (lines 75-91).                                           *)
(***************************************************************************)
MaxCells == 4       \* longest flat cell list drawn

\* "TK1", "tk2", "ans", "Untitled", "T"
TK1      == <<84, 75, 49>>
tk2      == <<116, 107, 50>>
ans      == <<97, 110, 115>>
Untitled == <<85, 110, 116, 105, 116, 108, 101, 100>>
JustT    == <<84>>
Lines    == {TK1, tk2, ans, Untitled, JustT}

\* The header patterns drawn: "^TK" (the default), "", "^un", "Q".
DefaultHeaderRegex == <<94, 84, 75>>
HeaderRegexes == {DefaultHeaderRegex, <<>>, <<94, 117, 110>>, <<81>>}

\* Case folding of re.IGNORECASE on one code point (ASCII range).
FoldChar(c) == IF c \in UpperLetters THEN c + 32 ELSE c

\* The literal a modelled pattern stands for: an optional "^" and literal
\* letters or digits (re.match anchors at the start with or without "^").
PatternLiteral(regex) ==
    IF Len(regex) > 0 /\ regex[1] = 94 THEN Tail(regex) ELSE regex

\* header_re.match(cell) of line 81, with header_re compiled at line 77.
HeaderMatch(regex, cell) ==
    LET lit == PatternLiteral(regex)
    IN  /\ Len(cell) >= Len(lit)
        /\ \A i \in 1..Len(lit) : FoldChar(cell[i]) = FoldChar(lit[i])

\* {"question": q, "answers": []}
NewCard(q) == [question |-> q, answers |-> <<>>]

\* The truth value of "current" at lines 82 and 89: None is false, a card (a
\* dict with two keys) is true.
Truthy(cur) == cur # None

\* Lines 82-83 and 89-90: the open card, if any, goes to the output.
\* (FinalizeIfAnswered tests the card's answers instead of the card.)

FinalizeIfAnswered(cs, cur) ==
    IF Truthy(cur) /\ cur[1].answers # <<>> THEN Append(cs, cur[1]) ELSE cs

Finalize(cs, cur) == IF Truthy(cur) THEN Append(cs, cur[1]) ELSE cs

\* Lines 82-84: a header closes the open card and opens its own.
\* (HeaderBranchDropOpen leaves out lines 82-83; HeaderBranchKeepOpen puts
\* the header on the open card instead of closing it.)
HeaderBranchDropOpen(st, cell) ==
    [cards |-> st.cards, current |-> Some(NewCard(cell))]

HeaderBranchKeepOpen(st, cell) ==
    [cards   |-> st.cards,
     current |-> IF Truthy(st.current)
                 THEN Some([st.current[1] EXCEPT !.question = cell])
                 ELSE Some(NewCard(cell))]

HeaderBranch(st, cell) ==
    [cards   |-> Finalize(st.cards, st.current),
     current |-> Some(NewCard(cell))]

\* Line 86: whether the sentinel card is to be created.
\* (NeedsSentinelNoCards tests the output list instead of the open card.)
NeedsSentinelNoCards(st) == st.cards = <<>>

NeedsSentinel(st) == st.current = None

\* Lines 86-88: an answer line joins the open card, the sentinel card when
\* none is open.
AnswerBranch(st, cell) ==
    LET cur == IF NeedsSentinel(st) THEN NewCard(Untitled) ELSE st.current[1]
    IN  [cards   |-> st.cards,
         current |-> Some([cur EXCEPT !.answers = Append(@, cell)])]

\* The body of the for loop, lines 81-88.
CardStep(st, cell, regex) ==
    IF HeaderMatch(regex, cell) THEN HeaderBranch(st, cell)
    ELSE AnswerBranch(st, cell)

RECURSIVE CardLoop(_, _, _, _)
CardLoop(cs, i, st, regex) ==
    IF i > Len(cs) THEN st
    ELSE CardLoop(cs, i + 1, CardStep(st, cs[i], regex), regex)

\* cells_to_cards as a function of its arguments.
cells_to_cards(cs, regex) ==
    LET st == CardLoop(cs, 1, [cards |-> <<>>, current |-> None], regex)
    IN  Finalize(st.cards, st.current)

CardState == [cards |-> cards, current |-> current]

\* One iteration of the loop on a header line (lines 81-84).
HeaderStep ==
    /\ cards_pc = "loop"
    /\ pos <= Len(cells)
    /\ HeaderMatch(header_regex, cells[pos])
    /\ LET st == HeaderBranch(CardState, cells[pos])
       IN  cards' = st.cards /\ current' = st.current
    /\ pos' = pos + 1
    /\ UNCHANGED <<cells, header_regex, sentinels, cards_pc>>
    /\ UNCHANGED <<colVars, resVars, rowVars, mainVars>>

\* One iteration of the loop on an answer line (lines 85-88); sentinels
\* counts the executions of line 87.
AnswerStep ==
    /\ cards_pc = "loop"
    /\ pos <= Len(cells)
    /\ ~HeaderMatch(header_regex, cells[pos])
    /\ LET st == AnswerBranch(CardState, cells[pos])
       IN  cards' = st.cards /\ current' = st.current
    /\ sentinels' = IF NeedsSentinel(CardState) THEN sentinels + 1 ELSE sentinels
    /\ pos' = pos + 1
    /\ UNCHANGED <<cells, header_regex, cards_pc>>
    /\ UNCHANGED <<colVars, resVars, rowVars, mainVars>>

\* The end of the loop and the return (lines 89-91).
CardsReturn ==
    /\ cards_pc = "loop"
    /\ pos > Len(cells)
    /\ cards' = Finalize(cards, current)
    /\ cards_pc' = "done"
    /\ UNCHANGED <<cells, header_regex, pos, current, sentinels>>
    /\ UNCHANGED <<colVars, resVars, rowVars, mainVars>>

(***************************************************************************)
(* The value of one cell (load_rows, lines 59-67).                         *)
(***************************************************************************)
MaxShared == 2      \* longest shared string table drawn
MaxIdx    == 3      \* largest shared-string index drawn, in absolute value

RECURSIVE LStrip(_, _)
LStrip(s, W) == IF s # <<>> /\ Head(s) \in W THEN LStrip(Tail(s), W) ELSE s

RECURSIVE RStrip(_, _)
RStrip(s, W) ==
    IF s # <<>> /\ s[Len(s)] \in W THEN RStrip(SubSeq(s, 1, Len(s) - 1), W)
    ELSE s

\* str.strip()
Strip(s) == RStrip(LStrip(s, Whitespace), Whitespace)

RECURSIVE DigitsValue(_, _)
\* The number a run of ASCII digits and underscores denotes, from acc.
DigitsValue(s, acc) ==
    IF s = <<>> THEN acc
    ELSE IF Head(s) = 95 THEN DigitsValue(Tail(s), acc)
    ELSE DigitsValue(Tail(s), acc * 10 + (Head(s) - 48))

\* int(s) for a str s (ASCII range): surrounding whitespace, an optional
\* sign, digits with single underscores between them.  None stands for the
\* ValueError.
ParseInt(s) ==
    LET t    == RStrip(LStrip(s, IntWhitespace), IntWhitespace)
        neg  == t # <<>> /\ Head(t) = 45
        sign == t # <<>> /\ Head(t) \in {43, 45}
        body == IF sign THEN Tail(t) ELSE t
        ok   == /\ body # <<>>
                /\ \A i \in 1..Len(body) : body[i] \in Digits \cup {95}
                /\ body[1] \in Digits
                /\ body[Len(body)] \in Digits
                /\ \A i \in 1..(Len(body) - 1) : ~(body[i] = 95 /\ body[i + 1] = 95)
    IN  IF ~ok THEN None
        ELSE Some(IF neg THEN 0 - DigitsValue(body, 0) ELSE DigitsValue(body, 0))

Value(x)  == [ok |-> TRUE, value |-> x, exc |-> "none"]
Raise(e)  == [ok |-> FALSE, value |-> <<>>, exc |-> e]

\* A list subscript lst[idx] with Python's negative indexing.
PySubscript(lst, idx) ==
    IF idx >= 0 /\ idx < Len(lst) THEN Value(lst[idx + 1])
    ELSE IF idx < 0 /\ idx >= 0 - Len(lst) THEN Value(lst[Len(lst) + idx + 1])
    ELSE Raise("IndexError")

\* Line 65: shared[idx] if idx < len(shared) else "".
SharedLookup(tbl, idx) ==
    IF idx < Len(tbl) THEN PySubscript(tbl, idx) ELSE Value(<<>>)

\* The type attribute "s".
TypeShared == <<115>>

\* A cell element: r and t are the attributes (None when absent), v is the
\* value child: None when absent, else Some(text) with text the node's
\* text, itself None for an empty node.
\* Lines 59-67: the value of a cell, or the exception raised.
ResolveValue(cell, tbl) ==
    IF cell.v = None THEN Value(<<>>)
    ELSE LET text == cell.v[1]
         IN  IF cell.t = Some(TypeShared)
             THEN IF text = None THEN Raise("TypeError")
                  ELSE IF ParseInt(text[1]) = None THEN Raise("ValueError")
                  ELSE SharedLookup(tbl, ParseInt(text[1])[1])
             ELSE Value(IF text = None THEN <<>> ELSE text[1])

\* "s0", "s1", ...: the i-th string of a drawn table (i from 0).
SharedSample(i) == <<115, 48 + i>>

SharedTable(n) == [i \in 1..n |-> SharedSample(i - 1)]

RECURSIVE NatText(_)
NatText(n) == IF n < 10 THEN <<48 + n>> ELSE NatText(n \div 10) \o <<48 + (n % 10)>>

\* The decimal text of an integer, as a worksheet writes an index.
IntText(i) == IF i < 0 THEN <<45>> \o NatText(0 - i) ELSE NatText(i)

\* "x", " 1 ", "1_0", "+2", "": texts that are not plain decimal numbers.
OddTexts == {<<120>>, <<32, 49, 32>>, <<49, 95, 48>>, <<43, 50>>, <<>>}

ResTexts == {None} \cup {Some(IntText(i)) : i \in (0 - MaxIdx)..MaxIdx}
                   \cup {Some(x) : x \in OddTexts}

ResCells == [r : {None}, v : {None} \cup {Some(x) : x \in ResTexts},
             t : {None, Some(TypeShared), Some(<<110>>)}]

\* Lines 59-67 applied to the drawn cell and table.
ResApply == /\ res_value = None
            /\ res_value' = Some(ResolveValue(res_cell, res_shared))
            /\ UNCHANGED <<res_shared, res_cell, colVars, cardVars, rowVars, mainVars>>

ResNext == ResApply

(***************************************************************************)
(* load_rows (lines 32-72).                                                *)
(***************************************************************************)
MaxRows        == 2     \* most row elements of a drawn worksheet
MaxCellsPerRow == 2     \* most cell elements of a drawn row
MaxSharedItems == 1     \* most string items of a drawn shared-strings part

\* One node met by si.iter(): whether its tag ends with "t", and its text.
Node(endsT, text) == [endsT |-> endsT, text |-> text]

\* The nodes of the i-th string item (i from 1): for odd i a string split
\* over two formatting runs (with an rFont node, whose tag also ends with
\* "t", and a <t> without text), for even i a plain <si><t>..</t></si>.
\* Both spell SharedSample(i - 1).
SiSample(i) ==
    IF i % 2 = 0
    THEN <<Node(FALSE, None), Node(TRUE, Some(SharedSample(i - 1)))>>
    ELSE <<Node(FALSE, None), Node(FALSE, None), Node(FALSE, None),
           Node(TRUE, None), Node(TRUE, Some(<<115>>)),
           Node(FALSE, None), Node(TRUE, None), Node(TRUE, Some(<<48 + (i - 1)>>))>>

RECURSIVE SiText(_)
\* Line 39: the texts of the nodes whose tag ends with "t", joined.
SiText(nodes) ==
    IF nodes = <<>> THEN <<>>
    ELSE (IF Head(nodes).endsT /\ Head(nodes).text # None
          THEN Head(nodes).text[1] ELSE <<>>) \o SiText(Tail(nodes))

\* Lines 38-40: the table of a shared-strings part.
SharedOf(items) == [i \in 1..Len(items) |-> SiText(items[i])]

SharedParts ==
    {[kind |-> "absent", items |-> <<>>], [kind |-> "malformed", items |-> <<>>]}
        \cup {[kind |-> "xml", items |-> [i \in 1..n |-> SiSample(i)]] :
                 n \in 0..MaxSharedItems}

\* What the path given to zipfile.ZipFile names: a zip archive, nothing, a
\* directory, or a file that is no zip archive.
PathKinds == {"archive", "missing", "directory", "notzip"}

\* The packages drawn: what the path names, and for an archive its
\* shared-strings part and whether its worksheet part is there and parses.
Packages == [path : PathKinds, sharedPart : SharedParts,
             sheetPart : {"absent", "malformed", "xml"}]

\* Line 34: zipfile.ZipFile(path) returns a handle.
Opens(p) == p.path = "archive"

\* Line 34: the exception zipfile.ZipFile(path) raises otherwise.
OpenError(p) ==
    CASE p.path = "missing"   -> "FileNotFoundError"
      [] p.path = "directory" -> "IsADirectoryError"
      [] p.path = "notzip"    -> "BadZipFile"

\* "A1", "c1", "x", "0", "-1"
RefA1 == <<65, 49>>
Refc1 == <<99, 49>>
TextX == <<120>>

\* The value node and type attribute of a drawn cell: no value node, the
\* literal x, and the shared-string indices 0, -1 and x.
NoValue    == <<None, None>>
LiteralX   == <<Some(Some(TextX)), None>>
SharedZero == <<Some(Some(IntText(0))), Some(TypeShared)>>
SharedNeg  == <<Some(Some(IntText(0 - 1))), Some(TypeShared)>>
SharedX    == <<Some(Some(TextX)), Some(TypeShared)>>

\* The cell elements drawn for a row: A1 with each of the five values, c1
\* with two of them, and one cell without a reference label.
RowCells ==
    {[r |-> rvt[1], v |-> rvt[2][1], t |-> rvt[2][2]] :
        rvt \in ({Some(RefA1)} \X {NoValue, LiteralX, SharedZero, SharedNeg, SharedX})
                   \cup ({Some(Refc1)} \X {LiteralX, SharedZero})
                   \cup ({None} \X {LiteralX})}

\* Leaving the with block of line 34, normally or by an exception: the
\* archive is closed.  (WithExitNoFinally closes on the normal path only.)
WithExitNoFinally(z, raised) == IF raised THEN z ELSE "closed"

WithExit(z, raised) == "closed"

\* Line 53: the letters of a reference label.
ColLetters(ref) == SelectSeq(ref, IsAlpha)

\* dict.get(i, "")
DictGet(d, i) == IF i \in DOMAIN d THEN d[i] ELSE <<>>

\* d[k] = x
DictPut(d, k, x) ==
    [c \in (DOMAIN d) \cup {k} |-> IF c = k THEN x ELSE d[c]]

Max(a, b) == IF a >= b THEN a ELSE b

\* Line 57.  (MaxColLast keeps the index of the last cell.)
MaxColLast(m, c) == c

MaxColOf(m, c) == Max(m, c)

\* The body of the cell loop, lines 51-67, on the state st = [row_data,
\* max_col]: the new state, or the exception raised.
CellStep(st, cell, tbl) ==
    LET ref     == IF cell.r = None THEN <<>> ELSE cell.r[1]
        letters == ColLetters(ref)
        c       == col_letter_to_index(letters)
        res     == ResolveValue(cell, tbl)
    IN  IF letters = <<>> THEN Value(st)
        ELSE IF ~res.ok THEN Raise(res.exc)
        ELSE Value([row_data |-> DictPut(st.row_data, c, res.value),
                    max_col  |-> MaxColOf(st.max_col, c)])

\* Line 70: [row_data.get(i, "") for i in range(max_col + 1)].
RowVals(d, m) == [i \in 1..(m + 1) |-> DictGet(d, i - 1)]

othersOfRows == <<colVars, resVars, cardVars, mainVars>>

\* An exception e leaves load_rows through the with block.
RaiseOut(e) == /\ rows_pc' = "raised"
               /\ rows_exc' = e
               /\ zf' = WithExit(zf, TRUE)

\* Line 34: the archive opens.
OpenZip ==
    /\ rows_pc = "open" /\ Opens(pkg)
    /\ zf' = "open"
    /\ rows_pc' = "shared"
    /\ UNCHANGED <<pkg, shared, rows, row_data, max_col, seen, rows_exc, othersOfRows>>

\* Line 34: zipfile.ZipFile raises (FileNotFoundError for a path that names
\* nothing, IsADirectoryError for a directory, BadZipFile for a file that is
\* no archive); no handle is bound.
OpenZipFails ==
    /\ rows_pc = "open" /\ ~Opens(pkg)
    /\ rows_pc' = "raised"
    /\ rows_exc' = OpenError(pkg)
    /\ UNCHANGED <<pkg, zf, shared, rows, row_data, max_col, seen, othersOfRows>>

\* Lines 36-42, the part is missing: zf.read raises KeyError, caught.
ReadSharedAbsent ==
    /\ rows_pc = "shared" /\ pkg.sharedPart.kind = "absent"
    /\ shared' = <<>>
    /\ rows_pc' = "sheet"
    /\ UNCHANGED <<pkg, zf, rows, row_data, max_col, seen, rows_exc, othersOfRows>>

\* Lines 36-42, the part does not parse: ParseError is not caught.
ReadSharedMalformed ==
    /\ rows_pc = "shared" /\ pkg.sharedPart.kind = "malformed"
    /\ RaiseOut("ParseError")
    /\ UNCHANGED <<pkg, shared, rows, row_data, max_col, seen, othersOfRows>>

\* Lines 36-40: the table is built.
ReadSharedXml ==
    /\ rows_pc = "shared" /\ pkg.sharedPart.kind = "xml"
    /\ shared' = SharedOf(pkg.sharedPart.items)
    /\ rows_pc' = "sheet"
    /\ UNCHANGED <<pkg, zf, rows, row_data, max_col, seen, rows_exc, othersOfRows>>

\* Lines 44-45, the worksheet part is missing: KeyError.
ReadSheetAbsent ==
    /\ rows_pc = "sheet" /\ pkg.sheetPart = "absent"
    /\ RaiseOut("KeyError")
    /\ UNCHANGED <<pkg, shared, rows, row_data, max_col, seen, othersOfRows>>

\* Lines 44-45, the worksheet part does not parse: ParseError.
ReadSheetMalformed ==
    /\ rows_pc = "sheet" /\ pkg.sheetPart = "malformed"
    /\ RaiseOut("ParseError")
    /\ UNCHANGED <<pkg, shared, rows, row_data, max_col, seen, othersOfRows>>

\* Lines 44-46: the worksheet is parsed.
ReadSheetXml ==
    /\ rows_pc = "sheet" /\ pkg.sheetPart = "xml"
    /\ rows' = <<>>
    /\ rows_pc' = "rows"
    /\ UNCHANGED <<pkg, zf, shared, row_data, max_col, seen, rows_exc, othersOfRows>>

\* Lines 47-49: the next row element.
StartRow ==
    /\ rows_pc = "rows" /\ Len(rows) < MaxRows
    /\ row_data' = <<>>
    /\ max_col' = 0
    /\ seen' = <<>>
    /\ rows_pc' = "cells"
    /\ UNCHANGED <<pkg, zf, shared, rows, rows_exc, othersOfRows>>

\* Lines 50-67: the next cell element of the row; seen keeps the cells of
\* the row read so far.
NextCell ==
    /\ rows_pc = "cells" /\ Len(seen) < MaxCellsPerRow
    /\ \E cell \in RowCells :
         LET st == CellStep([row_data |-> row_data, max_col |-> max_col], cell, shared)
         IN  /\ st.ok
             /\ seen' = Append(seen, cell)
             /\ row_data' = st.value.row_data
             /\ max_col' = st.value.max_col
    /\ UNCHANGED <<pkg, zf, shared, rows, rows_pc, rows_exc, othersOfRows>>

\* Lines 63-65: the next cell's index raises (int() or the subscript).
NextCellRaises ==
    /\ rows_pc = "cells" /\ Len(seen) < MaxCellsPerRow
    /\ \E cell \in RowCells :
         LET st == CellStep([row_data |-> row_data, max_col |-> max_col], cell, shared)
         IN  /\ ~st.ok
             /\ seen' = Append(seen, cell)
             /\ RaiseOut(st.exc)
    /\ UNCHANGED <<pkg, shared, rows, row_data, max_col, othersOfRows>>

\* Lines 69-71: the row is shaped and appended.
EndRow ==
    /\ rows_pc = "cells"
    /\ rows' = Append(rows, RowVals(row_data, max_col))
    /\ rows_pc' = "rows"
    /\ UNCHANGED <<pkg, zf, shared, row_data, max_col, seen, rows_exc, othersOfRows>>

\* Line 72: the grid is returned through the with block.
RowsReturn ==
    /\ rows_pc = "rows"
    /\ rows_pc' = "returned"
    /\ zf' = WithExit(zf, FALSE)
    /\ UNCHANGED <<pkg, shared, rows, row_data, max_col, seen, rows_exc, othersOfRows>>

RowsNext ==
    \/ OpenZip \/ OpenZipFails
    \/ ReadSharedAbsent \/ ReadSharedMalformed \/ ReadSharedXml
    \/ ReadSheetAbsent \/ ReadSheetMalformed \/ ReadSheetXml
    \/ StartRow \/ NextCell \/ NextCellRaises \/ EndRow \/ RowsReturn

CardsNext == HeaderStep \/ AnswerStep \/ CardsReturn

(***************************************************************************)
(* main (lines 116-138).  The argument parsing and the JSON text are not   *)
(* modelled: the deck is the list handed to json.dumps at line 136.        *)
(***************************************************************************)
MaxGridRows == 2    \* most rows of a drawn grid
MaxGridCols == 2    \* longest row of a drawn grid

\* " ", "TK1", " a ": the cell values of a drawn grid.
PaddedA    == <<32, 97, 32>>
GridValues == {<<32>>, TK1, PaddedA}

\* The grids load_rows can return: every row has at least one position.
Grids == StringsOver(StringsOver(GridValues, 1, MaxGridCols), 0, MaxGridRows)

MainPatterns == {DefaultHeaderRegex, <<>>}

\* Line 119: max(len(row) for row in rows) if rows else 0.
NumCols(g) ==
    IF g = <<>> THEN 0
    ELSE CHOOSE n \in {Len(g[r]) : r \in 1..Len(g)} :
             \A r \in 1..Len(g) : Len(g[r]) <= n

RECURSIVE ColCellsFrom(_, _, _)
\* Lines 126-130 from row r on: the trimmed non-empty cells of column c.
ColCellsFrom(g, c, r) ==
    IF r > Len(g) THEN <<>>
    ELSE (IF Len(g[r]) > c /\ Strip(g[r][c + 1]) # <<>>
          THEN <<Strip(g[r][c + 1])>> ELSE <<>>) \o ColCellsFrom(g, c, r + 1)

\* Lines 125-130.
ColCells(g, c) == ColCellsFrom(g, c, 1)

\* Lines 125-133 with col_cells created once, before the column loop: the
\* cells of every column so far.
ColCardsShared(g, c, regex) ==
    LET RECURSIVE Upto(_)
        Upto(k) == IF k < 0 THEN <<>> ELSE Upto(k - 1) \o ColCells(g, k)
    IN  cells_to_cards(Upto(c), regex)

\* Lines 125-132: the cards of column c.
ColCards(g, c, regex) == cells_to_cards(ColCells(g, c), regex)

othersOfMain == <<colVars, resVars, cardVars, rowVars>>

\* Lines 116-122: the grid is loaded and its width taken.
CountCols ==
    /\ main_pc = "start"
    /\ num_cols' = NumCols(grid)
    /\ all_cards' = <<>>
    /\ col_idx' = 0
    /\ main_pc' = "cols"
    /\ UNCHANGED <<grid, pattern, othersOfMain>>

\* Lines 123-133: one column is grouped and its cards appended.
ColumnStep ==
    /\ main_pc = "cols" /\ col_idx < num_cols
    /\ all_cards' = all_cards \o ColCards(grid, col_idx, pattern)
    /\ col_idx' = col_idx + 1
    /\ UNCHANGED <<grid, pattern, num_cols, main_pc, othersOfMain>>

\* Lines 135-138: the deck is written.
WriteDeck ==
    /\ main_pc = "cols" /\ col_idx >= num_cols
    /\ main_pc' = "written"
    /\ UNCHANGED <<grid, pattern, col_idx, num_cols, all_cards, othersOfMain>>

MainNext == CountCols \/ ColumnStep \/ WriteDeck

(***************************************************************************)
(* The specifications: one per function; the variables of the other        *)
(* functions stay at their idle values.                                    *)
(***************************************************************************)
NoPackage == [path |-> "missing", sharedPart |-> [kind |-> "absent", items |-> <<>>],
              sheetPart |-> "absent"]

ColNext == ColApply

\* col_letter_to_index on a drawn column label.
ColInit ==
    /\ col \in ColInputs
    /\ col_result = None
    /\ res_shared = <<>>
    /\ res_cell = [r |-> None, v |-> None, t |-> None]
    /\ res_value = None
    /\ cells = <<>>
    /\ header_regex = DefaultHeaderRegex
    /\ pos = 1
    /\ cards = <<>>
    /\ current = None
    /\ sentinels = 0
    /\ cards_pc = "idle"
    /\ pkg = NoPackage
    /\ zf = "unopened"
    /\ shared = <<>>
    /\ rows = <<>>
    /\ row_data = <<>>
    /\ max_col = 0
    /\ seen = <<>>
    /\ rows_pc = "idle"
    /\ rows_exc = "none"
    /\ grid = <<>>
    /\ pattern = DefaultHeaderRegex
    /\ col_idx = 0
    /\ num_cols = 0
    /\ all_cards = <<>>
    /\ main_pc = "idle"

SpecCol == ColInit /\ [][ColNext]_vars

\* the value resolution of a drawn cell against a drawn table.
ResInit ==
    /\ col = <<>>
    /\ col_result = None
    /\ res_shared \in {SharedTable(n) : n \in 0..MaxShared}
    /\ res_cell \in ResCells
    /\ res_value = None
    /\ cells = <<>>
    /\ header_regex = DefaultHeaderRegex
    /\ pos = 1
    /\ cards = <<>>
    /\ current = None
    /\ sentinels = 0
    /\ cards_pc = "idle"
    /\ pkg = NoPackage
    /\ zf = "unopened"
    /\ shared = <<>>
    /\ rows = <<>>
    /\ row_data = <<>>
    /\ max_col = 0
    /\ seen = <<>>
    /\ rows_pc = "idle"
    /\ rows_exc = "none"
    /\ grid = <<>>
    /\ pattern = DefaultHeaderRegex
    /\ col_idx = 0
    /\ num_cols = 0
    /\ all_cards = <<>>
    /\ main_pc = "idle"

SpecRes == ResInit /\ [][ResNext]_vars

\* cells_to_cards on a drawn cell list and header pattern.
CardsInit ==
    /\ col = <<>>
    /\ col_result = None
    /\ res_shared = <<>>
    /\ res_cell = [r |-> None, v |-> None, t |-> None]
    /\ res_value = None
    /\ cells \in StringsOver(Lines, 0, MaxCells)
    /\ header_regex \in HeaderRegexes
    /\ pos = 1
    /\ cards = <<>>
    /\ current = None
    /\ sentinels = 0
    /\ cards_pc = "loop"
    /\ pkg = NoPackage
    /\ zf = "unopened"
    /\ shared = <<>>
    /\ rows = <<>>
    /\ row_data = <<>>
    /\ max_col = 0
    /\ seen = <<>>
    /\ rows_pc = "idle"
    /\ rows_exc = "none"
    /\ grid = <<>>
    /\ pattern = DefaultHeaderRegex
    /\ col_idx = 0
    /\ num_cols = 0
    /\ all_cards = <<>>
    /\ main_pc = "idle"

Spec == CardsInit /\ [][CardsNext]_vars

\* load_rows on a drawn package.
RowsInit ==
    /\ col = <<>>
    /\ col_result = None
    /\ res_shared = <<>>
    /\ res_cell = [r |-> None, v |-> None, t |-> None]
    /\ res_value = None
    /\ cells = <<>>
    /\ header_regex = DefaultHeaderRegex
    /\ pos = 1
    /\ cards = <<>>
    /\ current = None
    /\ sentinels = 0
    /\ cards_pc = "idle"
    /\ pkg \in Packages
    /\ zf = "unopened"
    /\ shared = <<>>
    /\ rows = <<>>
    /\ row_data = <<>>
    /\ max_col = 0
    /\ seen = <<>>
    /\ rows_pc = "open"
    /\ rows_exc = "none"
    /\ grid = <<>>
    /\ pattern = DefaultHeaderRegex
    /\ col_idx = 0
    /\ num_cols = 0
    /\ all_cards = <<>>
    /\ main_pc = "idle"

SpecRows == RowsInit /\ [][RowsNext]_vars

\* main on a drawn grid and header pattern.
MainInit ==
    /\ col = <<>>
    /\ col_result = None
    /\ res_shared = <<>>
    /\ res_cell = [r |-> None, v |-> None, t |-> None]
    /\ res_value = None
    /\ cells = <<>>
    /\ header_regex = DefaultHeaderRegex
    /\ pos = 1
    /\ cards = <<>>
    /\ current = None
    /\ sentinels = 0
    /\ cards_pc = "idle"
    /\ pkg = NoPackage
    /\ zf = "unopened"
    /\ shared = <<>>
    /\ rows = <<>>
    /\ row_data = <<>>
    /\ max_col = 0
    /\ seen = <<>>
    /\ rows_pc = "idle"
    /\ rows_exc = "none"
    /\ grid \in Grids
    /\ pattern \in MainPatterns
    /\ col_idx = 0
    /\ num_cols = 0
    /\ all_cards = <<>>
    /\ main_pc = "start"

SpecMain == MainInit /\ [][MainNext]_vars

(***************************************************************************)
(* What the grouping of a cell list cs under a pattern is to produce,      *)
(* stated on the input alone.                                              *)
(***************************************************************************)
\* The header lines among the first n lines.
HeadersUpTo(cs, regex, n) == {i \in 1..n : HeaderMatch(regex, cs[i])}

AllHeaders(cs, regex) == HeadersUpTo(cs, regex, Len(cs))

\* The largest and the smallest member of a non-empty set of numbers.
Largest(S)  == CHOOSE h \in S : \A g \in S : g <= h
Smallest(S) == CHOOSE h \in S : \A g \in S : h <= g

\* The last header at or before line i, 0 when there is none.
LastHeaderUpTo(cs, regex, i) ==
    IF HeadersUpTo(cs, regex, i) = {} THEN 0 ELSE Largest(HeadersUpTo(cs, regex, i))

\* The first header after line i, Len(cs) + 1 when there is none.
NextHeaderAfter(cs, regex, i) ==
    LET later == {h \in AllHeaders(cs, regex) : h > i}
    IN  IF later = {} THEN Len(cs) + 1 ELSE Smallest(later)

\* The input starts with an answer line.
LeadingAnswer(cs, regex) == Len(cs) > 0 /\ ~HeaderMatch(regex, cs[1])

\* The position in the output of the card that line i belongs to.
CardOf(cs, regex, i) ==
    Cardinality(HeadersUpTo(cs, regex, i)) + (IF LeadingAnswer(cs, regex) THEN 1 ELSE 0)

\* The cards expected of cs: one per header, after the sentinel card when
\* the input starts with an answer line; each card holds the lines up to
\* the next header.
ExpectedCards(cs, regex) ==
    LET H     == AllHeaders(cs, regex)
        lead  == IF LeadingAnswer(cs, regex) THEN 1 ELSE 0
        \* the line that opens the k-th card, 0 for the sentinel card
        Start(k) == IF k <= lead THEN 0
                    ELSE CHOOSE h \in H : Cardinality({g \in H : g < h}) = k - lead - 1
    IN  [k \in 1..(Cardinality(H) + lead) |->
            [question |-> IF Start(k) = 0 THEN Untitled ELSE cs[Start(k)],
             answers  |-> SubSeq(cs, Start(k) + 1, NextHeaderAfter(cs, regex, Start(k)) - 1)]]

RECURSIVE SumAnswers(_)
SumAnswers(cs) ==
    IF cs = <<>> THEN 0 ELSE Len(Head(cs).answers) + SumAnswers(Tail(cs))

\* The cards built so far, the open one included.
CardsSoFar ==
    IF cards_pc = "done" \/ current = None THEN cards ELSE Append(cards, current[1])

(***************************************************************************)
(* Properties of cells_to_cards, checked under Spec.                  *)
(***************************************************************************)

\* C1: when cells_to_cards has returned, the answers of all output cards
\* plus the input lines matching the header pattern add up to the number of
\* input lines; and at every point of the scan the same holds of the lines
\* read so far, the open card counted.
C1_EveryLineConsumedOnce ==
    /\ cards_pc \in {"loop", "done"} =>
          SumAnswers(CardsSoFar) + Cardinality(HeadersUpTo(cells, header_regex, pos - 1))
              = pos - 1
    /\ cards_pc = "done" =>
          /\ pos - 1 = Len(cells)
          /\ SumAnswers(cards) + Cardinality(AllHeaders(cells, header_regex)) = Len(cells)

\* C1 witness: a finished run over headers and answers, with a leading
\* answer, two headers and an answer after a header.
C1_Witness ==
    /\ cards_pc = "done"
    /\ Cardinality(AllHeaders(cells, header_regex)) >= 2
    /\ LeadingAnswer(cells, header_regex)
    /\ ~HeaderMatch(header_regex, cells[Len(cells)])
    /\ SumAnswers(cards) >= 2

\* C2: when cells_to_cards has returned, every non-header line i is an
\* answer of the card of the header that most recently preceded it (of the
\* sentinel card when none did), at the position it has among the lines
\* that follow that header, so in input order.
C2_AnswerJoinsLatestHeader ==
    cards_pc = "done" =>
        \A i \in 1..Len(cells) :
            ~HeaderMatch(header_regex, cells[i]) =>
                LET h == LastHeaderUpTo(cells, header_regex, i)
                    k == CardOf(cells, header_regex, i)
                IN  /\ k \in 1..Len(cards)
                    /\ cards[k].question = (IF h = 0 THEN Untitled ELSE cells[h])
                    /\ (i - h) \in 1..Len(cards[k].answers)
                    /\ cards[k].answers[i - h] = cells[i]

\* C2 witness: a finished run in which two cards have answers and one of
\* them has two.
C2_Witness ==
    /\ cards_pc = "done"
    /\ \E j, k \in 1..Len(cards) :
          /\ j < k
          /\ cards[j].answers # <<>>
          /\ Len(cards[k].answers) >= 2
          /\ cards[k].question # Untitled

\* C3: when cells_to_cards has returned, there is one card per header line
\* (after the sentinel card, if any), in the order of the header lines, its
\* question the header line; the card of a header directly followed by
\* another header or by the end of the input has no answers.  In
\* particular [TK1, tk2, ans] gives [(TK1, []), (tk2, [ans])].
C3_OneCardPerHeader ==
    cards_pc = "done" =>
        /\ Len(cards) = Cardinality(AllHeaders(cells, header_regex))
                          + (IF LeadingAnswer(cells, header_regex) THEN 1 ELSE 0)
        /\ \A i \in AllHeaders(cells, header_regex) :
              LET k == CardOf(cells, header_regex, i)
              IN  /\ k \in 1..Len(cards)
                  /\ cards[k].question = cells[i]
                  /\ (i = Len(cells) \/ HeaderMatch(header_regex, cells[i + 1]))
                        => cards[k].answers = <<>>
        /\ (cells = <<TK1, tk2, ans>> /\ header_regex = DefaultHeaderRegex)
              => cards = <<[question |-> TK1, answers |-> <<>>],
                           [question |-> tk2, answers |-> <<ans>>]>>

\* C3 witness: a finished run with two consecutive headers and a header at
\* the end of the input.
C3_Witness ==
    /\ cards_pc = "done"
    /\ Len(cells) >= 3
    /\ HeaderMatch(header_regex, cells[1])
    /\ HeaderMatch(header_regex, cells[2])
    /\ HeaderMatch(header_regex, cells[Len(cells)])
    /\ \E i \in 1..Len(cells) : ~HeaderMatch(header_regex, cells[i])
    /\ cards[1].answers = <<>>

\* C4: line 87 runs (the sentinel card is created) exactly when the first
\* input line is read and is not a header: at most once in a run, and never
\* once a header has been read.  When cells_to_cards has returned after
\* creating it, the sentinel card is the first card of the output and its
\* answers are the input lines before the first header, in order; every
\* other card is the card of a header line.
C4_OneSentinelFirst ==
    /\ cards_pc \in {"loop", "done"} =>
          sentinels = (IF pos > 1 /\ LeadingAnswer(cells, header_regex) THEN 1 ELSE 0)
    /\ cards_pc = "done" =>
          /\ Len(cards) = Cardinality(AllHeaders(cells, header_regex)) + sentinels
          /\ sentinels = 1 =>
                /\ cards[1].question = Untitled
                /\ cards[1].answers =
                      SubSeq(cells, 1, NextHeaderAfter(cells, header_regex, 0) - 1)
          /\ \A k \in (sentinels + 1)..Len(cards) :
                \E i \in AllHeaders(cells, header_regex) :
                    /\ cards[k].question = cells[i]
                    /\ k = CardOf(cells, header_regex, i)

\* C4 witness: a finished run that created the sentinel card for two
\* leading answers and then read a header and one more answer.
C4_Witness ==
    /\ cards_pc = "done"
    /\ sentinels = 1
    /\ Len(cells) >= 4
    /\ NextHeaderAfter(cells, header_regex, 0) = 3
    /\ ~HeaderMatch(header_regex, cells[4])
    /\ Len(cards) = 2

(***************************************************************************)
(* Properties of col_letter_to_index, checked under SpecCol.               *)
(***************************************************************************)
RECURSIVE Pow26(_)
Pow26(k) == IF k = 0 THEN 1 ELSE 26 * Pow26(k - 1)

RECURSIVE ShorterLabels(_)
\* The number of non-empty labels of fewer than n letters.
ShorterLabels(n) == IF n <= 1 THEN 0 ELSE Pow26(n - 1) + ShorterLabels(n - 1)

RECURSIVE IndexToCol(_)
\* The label of a 0-based column index in bijective base 26.
IndexToCol(n) ==
    IF n < 26 THEN <<65 + n>>
    ELSE IndexToCol((n \div 26) - 1) \o <<65 + (n % 26)>>

\* C10: the index of a non-empty label of letters is its rank among the
\* labels ordered by length and then alphabetically, whatever the case of
\* its letters: the labels of n letters fill the range that follows the
\* shorter labels, and the label is read back from the index, so that two
\* labels differing in more than case never share an index and every index
\* of the range is taken.  A=0, Z=25, AA=26, AZ=51, BA=52, ZZ=701, AAA=702.
C10_BijectiveBase26 ==
    (col_result # None /\ col # <<>>) =>
        LET n == col_result[1]
            u == Upper(col)
        IN  /\ ShorterLabels(Len(col)) <= n
            /\ n < ShorterLabels(Len(col) + 1)
            /\ IndexToCol(n) = u
            /\ u = <<65>> => n = 0
            /\ u = <<90>> => n = 25
            /\ u = <<65, 65>> => n = 26
            /\ u = <<65, 90>> => n = 51
            /\ u = <<66, 65>> => n = 52
            /\ u = <<90, 90>> => n = 701
            /\ u = <<65, 65, 65>> => n = 702

\* C10 witness: the label AAA has been converted, to 702.
C10_Witness == col = <<65, 65, 65>> /\ col_result = Some(702)

(***************************************************************************)
(* Properties of the value resolution, checked under SpecRes.              *)
(***************************************************************************)
\* The drawn cell is a shared-string cell whose value node holds an integer.
ResIsSharedRef ==
    /\ res_cell.v # None
    /\ res_cell.t = Some(TypeShared)
    /\ res_cell.v[1] # None
    /\ ParseInt(res_cell.v[1][1]) # None

ResIndex == ParseInt(res_cell.v[1][1])[1]

\* C5: a shared-string cell with index i gets the empty string, and no
\* error, when i is no position of the table (i >= len(T) or i < 0), and
\* T[i] when it is one.
C5_OutOfRangeIsEmpty ==
    (res_value # None /\ ResIsSharedRef) =>
        IF 0 <= ResIndex /\ ResIndex < Len(res_shared)
        THEN res_value[1] = Value(res_shared[ResIndex + 1])
        ELSE res_value[1] = Value(<<>>)

\* What line 65 does instead: the claim holds of every index i >= 0; an
\* index -len(T) <= i < 0 counts from the end of the table, and an index
\* i < -len(T) raises IndexError.
C5_NegativeIndexWraps ==
    (res_value # None /\ ResIsSharedRef) =>
        LET i == ResIndex
            n == Len(res_shared)
        IN  res_value[1] =
                (IF i >= n THEN Value(<<>>)
                 ELSE IF i >= 0 THEN Value(res_shared[i + 1])
                 ELSE IF i >= 0 - n THEN Value(res_shared[n + i + 1])
                 ELSE Raise("IndexError"))

(***************************************************************************)
(* Properties of load_rows, checked under SpecRows.                        *)
(***************************************************************************)
\* The column of the j-th cell read in the current row, -1 without a label.
SeenCol(j) ==
    LET ref == IF seen[j].r = None THEN <<>> ELSE seen[j].r[1]
    IN  col_letter_to_index(ColLetters(ref))

\* The cells of the current row that carry a reference label.
Labelled == {j \in 1..Len(seen) : SeenCol(j) >= 0}

\* The last cell of the current row labelled with column c, 0 if none.
LastAt(c) ==
    LET at == {j \in Labelled : SeenCol(j) = c}
    IN  IF at = {} THEN 0 ELSE Largest(at)

\* A row has just been appended, and seen holds its cells.
RowDone == rows_pc \in {"rows", "returned"} /\ rows # <<>>

\* C6: a row with at least one labelled cell is as long as one plus the
\* largest column index among its cells; position c holds the resolved
\* value of the cell labelled with column c (of the last one, should two
\* cells carry the same column), and the empty string when no cell is
\* labelled with c.
C6_RowShapedByLabels ==
    (RowDone /\ Labelled # {}) =>
        LET row == rows[Len(rows)]
            top == Largest({SeenCol(j) : j \in Labelled})
        IN  /\ Len(row) = top + 1
            /\ \A c \in 0..top :
                  row[c + 1] = (IF LastAt(c) = 0 THEN <<>>
                                ELSE ResolveValue(seen[LastAt(c)], shared).value)

\* C6 witness: a grid of two rows of different lengths, the last one with a
\* gap between two filled positions.
C6_Witness ==
    /\ RowDone
    /\ Len(rows) = 2
    /\ Len(rows[1]) # Len(rows[2])
    /\ Len(rows[2]) = 3
    /\ rows[2][1] # <<>> /\ rows[2][2] = <<>> /\ rows[2][3] # <<>>
    /\ LastAt(1) = 0

Terminal == rows_pc \in {"returned", "raised"}

\* C8: load_rows is never left, by return or by an exception, with the
\* archive open: once opened it is closed in every terminal state, and it
\* is open at every step in between; when zipfile.ZipFile itself raises
\* there is no handle to close.
C8_ArchiveClosedOnExit ==
    /\ Terminal => zf # "open"
    /\ (Terminal /\ Opens(pkg)) => zf = "closed"
    /\ (Terminal /\ ~Opens(pkg)) => zf = "unopened"
    /\ rows_pc \in {"shared", "sheet", "rows", "cells"} => zf = "open"

\* C8 witness: load_rows was left by the ValueError of a non-integer index
\* after a first row, the archive closed.
C8_Witness ==
    /\ rows_pc = "raised"
    /\ rows_exc = "ValueError"
    /\ Len(rows) = 1
    /\ zf = "closed"

\* The j-th cell read is a shared-string cell with a value node.
SeenSharedRef(j) == seen[j].v # None /\ seen[j].t = Some(TypeShared)

\* The j-th cell read holds an integer as its index.
SeenIndexIsInt(j) ==
    /\ seen[j].v[1] # None
    /\ ParseInt(seen[j].v[1][1]) # None

SharedAbsent == pkg.sharedPart.kind = "absent"

\* C9: with the shared-strings part missing and the worksheet part there
\* (and well-formed), load_rows works with an empty table, every
\* shared-string cell resolving to the empty string, and completes without
\* error: it is not left by an exception at a cell whose index is an
\* integer.  With the worksheet part missing it is left by an exception and
\* builds no grid, with or without the shared-strings part.
C9_MissingSharedCompletes ==
    /\ (SharedAbsent /\ rows_pc \in {"sheet", "rows", "cells", "returned"}) =>
          /\ shared = <<>>
          /\ \A c \in DOMAIN row_data :
                SeenSharedRef(LastAt(c)) => row_data[c] = <<>>
    /\ (SharedAbsent /\ Opens(pkg) /\ pkg.sheetPart = "xml" /\ rows_pc = "raised") =>
          ~(SeenSharedRef(Len(seen)) /\ SeenIndexIsInt(Len(seen)))
    /\ (Terminal /\ pkg.sheetPart = "absent") =>
          /\ rows_pc = "raised"
          /\ rows = <<>>

\* What load_rows does with the shared-strings part missing: the missing
\* part raises nothing and leaves an empty table, with which every
\* shared-string cell that resolves gets the empty string; load_rows is
\* then left by an exception only for a worksheet part that is missing
\* (KeyError) or does not parse (ParseError), or at a shared-string cell
\* whose index is no integer or is negative (line 65 raises IndexError on
\* the empty table).
C9_MissingSharedTolerated ==
    /\ (SharedAbsent /\ rows_pc \in {"sheet", "rows", "cells", "returned"}) =>
          /\ shared = <<>>
          /\ rows_exc = "none"
          /\ \A c \in DOMAIN row_data :
                SeenSharedRef(LastAt(c)) => row_data[c] = <<>>
    /\ (SharedAbsent /\ Opens(pkg) /\ rows_pc = "raised") =>
          /\ pkg.sheetPart # "xml" =>
                rows_exc = (IF pkg.sheetPart = "absent" THEN "KeyError" ELSE "ParseError")
          /\ pkg.sheetPart = "xml" =>
                /\ rows_exc \in {"ValueError", "TypeError", "IndexError"}
                /\ SeenSharedRef(Len(seen))
                /\ (SeenIndexIsInt(Len(seen)) =>
                       /\ ParseInt(seen[Len(seen)].v[1][1])[1] < 0
                       /\ rows_exc = "IndexError")
    /\ (Terminal /\ pkg.sheetPart = "absent") =>
          /\ rows_pc = "raised"
          /\ rows = <<>>

(***************************************************************************)
(* Properties of main, checked under SpecMain.                             *)
(***************************************************************************)
\* The rows with a non-blank cell in column c (c from 0).
FilledRows(g, c) ==
    {r \in 1..Len(g) : Len(g[r]) > c /\ Strip(g[r][c + 1]) # <<>>}

\* Column c as a flat list: its trimmed non-blank cells from top to bottom.
ColumnOf(g, c) ==
    LET F == FilledRows(g, c)
        Row(k) == CHOOSE r \in F : Cardinality({q \in F : q < r}) = k - 1
    IN  [k \in 1..Cardinality(F) |-> Strip(g[Row(k)][c + 1])]

\* The width of the grid: the length of its longest row.
Width(g) == IF g = <<>> THEN 0 ELSE Largest({Len(g[r]) : r \in 1..Len(g)})

RECURSIVE DeckOfColumns(_, _, _)
\* The expected cards of the columns below n, in column order.
DeckOfColumns(g, regex, n) ==
    IF n = 0 THEN <<>>
    ELSE DeckOfColumns(g, regex, n - 1) \o ExpectedCards(ColumnOf(g, n - 1), regex)

\* C7: the deck written is the cards of column 0, then those of column 1,
\* and so on, each column grouped on its own from its trimmed non-blank
\* cells taken top to bottom; during the column loop the deck holds the
\* cards of the columns done.  So a card never holds a line of another
\* column than its question's.
C7_DeckIsColumnsInOrder ==
    /\ main_pc = "cols" =>
          /\ num_cols = Width(grid)
          /\ all_cards = DeckOfColumns(grid, pattern, col_idx)
    /\ main_pc = "written" =>
          all_cards = DeckOfColumns(grid, pattern, Width(grid))

\* C7 witness: a deck written from two columns, the first ending on a
\* header with no answer, the second starting with an answer line: the
\* answer went to a sentinel card, not to the open card of the first column.
C7_Witness ==
    /\ main_pc = "written"
    /\ num_cols = 2
    /\ pattern = DefaultHeaderRegex
    /\ Len(all_cards) = 2
    /\ all_cards[1] = [question |-> TK1, answers |-> <<>>]
    /\ all_cards[2] = [question |-> Untitled, answers |-> <<<<97>>>>]

====
